---- MODULE Spec2Model ----
(***************************************************************************)
(* Model of components/profiles/src/ProfileManagerImpl.cpp: the profile    *)
(* store (persisted load, suggestion merge, enumeration), the fingerprint  *)
(* (hashKey) computation, and the SignIn continuation chain.               *)
(***************************************************************************)
EXTENDS Integers, Sequences, FiniteSets, TLC

(***************************************************************************)
(* Bounds of the model.                                                    *)
(***************************************************************************)
\* longest identifier list of a suggestion candidate
MaxIds == 2
\* number of suggestion callbacks delivered
MaxSuggestions == 2
\* number of SignIn calls
MaxRuns == 1
\* number of SignIn calls that are under way at the same time
MaxConcurrent == 2
\* longest identifier list handed to the fingerprint loops on their own
MaxHashLen == 3

(***************************************************************************)
(* Machine words.  size_t is 32 or 64 bits wide depending on the build; a  *)
(* word is a little-endian sequence of 16-bit limbs (2 or 4 of them), so   *)
(* that the wrap-around of 3 * hash and the 32-bit clip keep their width.  *)
(***************************************************************************)
RECURSIVE XorBits(_, _, _)
XorBits(a, b, n) ==
    IF n = 0 THEN 0
    ELSE IF a = 0 THEN b
    ELSE IF b = 0 THEN a
    ELSE (((a % 2) + (b % 2)) % 2) + 2 * XorBits(a \div 2, b \div 2, n - 1)

\* a ^ b on size_t
XorWord(a, b) == [i \in 1..Len(a) |-> XorBits(a[i], b[i], 16)]

RECURSIVE MulSmall(_, _, _, _)
MulSmall(w, k, i, carry) ==
    IF i > Len(w) THEN << >>
    ELSE LET t == k * w[i] + carry
         IN  << (t % 65536) >> \o MulSmall(w, k, i + 1, t \div 65536)

\* 3 * h on size_t: unsigned multiplication modulo 2^width
Times3(w) == MulSmall(w, 3, 1, 0)

\* size_t hashKey = 0
ZeroWord(limbs) == [i \in 1..limbs |-> 0]

\* hashKey &= UINT32_MAX
ClipTo32(w) == [i \in 1..Len(w) |-> IF i <= 2 THEN w[i] ELSE 0]

\* conversion of a size_t to the 32-bit fingerprint type of the store's keys
ToKey(w) == << w[1], w[2] >>

\* numeric order of two 32-bit keys (the iteration order of std::map)
KeyLess(a, b) == a[2] < b[2] \/ (a[2] = b[2] /\ a[1] < b[1])

(***************************************************************************)
(* Identifiers and the inputs the environment can supply.                  *)
(***************************************************************************)
IdKeys == {"steam", "ros"}

Identifiers == {<<"steam", "1">>, <<"steam", "2">>, <<"ros", "1">>}

\* display name and tile of the n-th suggestion candidate delivered: each
\* candidate carries metadata of its own
SuggestedNames == <<"A", "B", "C", "D">>

SuggestedTiles == <<"a.png", "b.png", "c.png", "d.png">>

\* sequences over S of length at most n
SeqsUpTo(S, n) == UNION {[1..k -> S] : k \in 0..n}

\* std::hash<ProfileIdentifier> as a 64-bit value; a 32-bit build sees its
\* low half.  A hash without collisions whose products by 3 overflow:
PlainHash ==
    [id \in Identifiers |->
        CASE id = <<"steam", "1">> -> <<4660, 43981, 1, 32768>>
          [] id = <<"steam", "2">> -> <<65535, 65535, 65535, 21845>>
          [] id = <<"ros", "1">>   -> <<0, 32768, 0, 0>>]

\* a hash under which the fingerprint of two identifiers equals that of the
\* third (3 ^ 12 = 15):
CrossingHash ==
    [id \in Identifiers |->
        CASE id = <<"steam", "1">> -> <<1, 0, 0, 0>>
          [] id = <<"steam", "2">> -> <<4, 0, 0, 0>>
          [] id = <<"ros", "1">>   -> <<5, 0, 0, 0>>]

\* a hash under which two identifiers collide:
CollidingHash ==
    [id \in Identifiers |->
        CASE id = <<"steam", "1">> -> <<21845, 21845, 9, 0>>
          [] id = <<"steam", "2">> -> <<21845, 21845, 9, 0>>
          [] id = <<"ros", "1">>   -> <<7, 0, 51966, 0>>]

HashTables == {PlainHash, CrossingHash, CollidingHash}

VARIABLES
    sizeLimbs,          \* limbs of size_t in this build: 2 (32 bit) or 4 (64 bit)
    stdHash,            \* std::hash<ProfileIdentifier> of this build
    m_profiles,         \* std::map fingerprint -> ProfileImpl
    m_profileIndices,   \* std::vector of fingerprints, in discovery order
    m_identityProviders,\* keys of the registered identity providers
    file,               \* profiles.json as stored on disk
    initialized,        \* Initialize() has loaded the stored profiles
    ingested,           \* history of the suggestion callbacks delivered
    terminalClient,     \* Instance<TerminalClient>: run whose client was set last
    runs,               \* the SignIn runs, by run number
    probe               \* result of the last stand-alone fingerprint loop

vars == << sizeLimbs, stdHash, m_profiles, m_profileIndices, m_identityProviders,
           file, initialized, ingested, terminalClient, runs, probe >>

\* std::hash<ProfileIdentifier>()(identifier) as a size_t of this build
Hash(id) == SubSeq(stdHash[id], 1, sizeLimbs)

\* the hash step with the product taken of the whole accumulator:
\* hashKey = 3 * (hashKey ^ hash(identifier))
HashStepNested(hashKey, id) == Times3(XorWord(hashKey, Hash(id)))

\* the hash step without the factor: hashKey ^= hash(identifier)
HashStepUnscaled(hashKey, id) == XorWord(hashKey, Hash(id))

\* hashKey ^= 3 * std::hash<ProfileIdentifier>()(identifier)
HashStep(hashKey, id) == XorWord(hashKey, Times3(Hash(id)))

(***************************************************************************)
(* ProfileImpl objects and the store.                                      *)
(***************************************************************************)
\* a ProfileImpl: presentation metadata, identifier list, fingerprint, flag
ProfileImpl(name, tile, ids, key, suggestion) ==
    [displayName |-> name, tileURI |-> tile, identifiers |-> ids,
     internalIdentifier |-> key, isSuggestion |-> suggestion]

\* profile->GetNumIdentifiers()
GetNumIdentifiers(profile) == Len(profile.identifiers)

\* the keys of a std::map in iteration (ascending) order
RECURSIVE MapOrder(_)
MapOrder(keys) ==
    IF keys = {} THEN << >>
    ELSE LET least == CHOOSE k \in keys : \A o \in keys \ {k} : KeyLess(k, o)
         IN  << least >> \o MapOrder(keys \ {least})

\* the inner loop over j: thatProfile holds an identifier equal to `identifier`
HasIdentifier(thatProfile, identifier) ==
    \E j \in 1..GetNumIdentifiers(thatProfile) :
        thatProfile.identifiers[j] = identifier

\* the loop over m_profiles for one identifier of the candidate.  `found` is
\* <<matchesExistingProfile, key of matchingProfile>>; the loop breaks after
\* the profile that matched, and, after the check at the end of the body,
\* after the first profile when a match was already recorded.
RECURSIVE ScanProfiles(_, _, _, _)
ScanProfiles(profiles, order, identifier, found) ==
    IF order = << >> THEN found
    ELSE LET thatProfile == profiles[Head(order)]
             now == IF HasIdentifier(thatProfile, identifier)
                    THEN << TRUE, Head(order) >>
                    ELSE found
         IN  IF now[1] THEN now
             ELSE ScanProfiles(profiles, Tail(order), identifier, now)

\* the loop over the candidate's identifiers leaving as soon as a profile
\* matched, before the matching identifier is hashed
RECURSIVE ScanUntilMatch(_, _, _, _, _)
ScanUntilMatch(profiles, ids, i, found, hashKey) ==
    IF i > Len(ids) \/ found[1]
    THEN [matchesExistingProfile |-> found[1],
          matchingProfile |-> found[2],
          hashKey |-> hashKey]
    ELSE LET now == ScanProfiles(profiles, MapOrder(DOMAIN profiles), ids[i], found)
         IN  ScanUntilMatch(profiles, ids, i + 1, now,
                            IF now[1] THEN hashKey ELSE HashStep(hashKey, ids[i]))

\* the loop over the candidate's identifiers in the GetProfiles callback:
\* match scan, then hashKey ^= 3 * hash(identifier), for every identifier
RECURSIVE ScanIdentifiers(_, _, _, _, _)
ScanIdentifiers(profiles, ids, i, found, hashKey) ==
    IF i > Len(ids) THEN [matchesExistingProfile |-> found[1],
                          matchingProfile |-> found[2],
                          hashKey |-> hashKey]
    ELSE ScanIdentifiers(profiles, ids, i + 1,
                         ScanProfiles(profiles, MapOrder(DOMAIN profiles), ids[i], found),
                         HashStep(hashKey, ids[i]))

NoProfile == << >>

\* the callback matching a candidate by its fingerprint instead of by its
\* identifiers: it merges only into a profile stored under the same key
SuggestionCallbackByKey(profiles, indices, profile) ==
    LET scan == ScanIdentifiers(profiles, profile.identifiers, 1,
                                << FALSE, NoProfile >>, ZeroWord(sizeLimbs))
        hashKey == ClipTo32(scan.hashKey)
        profileImpl == [profile EXCEPT !.isSuggestion = TRUE,
                                       !.internalIdentifier = ToKey(hashKey)]
    IN  IF ToKey(hashKey) \notin DOMAIN profiles
        THEN [profiles |-> [k \in DOMAIN profiles \cup {ToKey(hashKey)} |->
                               IF k = ToKey(hashKey) THEN profileImpl ELSE profiles[k]],
              indices |-> Append(indices, ToKey(hashKey)),
              candidate |-> profileImpl,
              matched |-> NoProfile]
        ELSE [profiles |-> [profiles EXCEPT
                               ![ToKey(hashKey)].displayName = profile.displayName,
                               ![ToKey(hashKey)].tileURI = profile.tileURI],
              indices |-> indices,
              candidate |-> profileImpl,
              matched |-> ToKey(hashKey)]

\* the callback marking the profile it merges into as a suggestion, as it
\* marks the candidate
SuggestionCallbackMarksMatch(profiles, indices, profile) ==
    LET scan == ScanIdentifiers(profiles, profile.identifiers, 1,
                                << FALSE, NoProfile >>, ZeroWord(sizeLimbs))
        hashKey == ClipTo32(scan.hashKey)
        profileImpl == [profile EXCEPT !.isSuggestion = TRUE,
                                       !.internalIdentifier = ToKey(hashKey)]
    IN  IF ~scan.matchesExistingProfile
        THEN [profiles |-> [k \in DOMAIN profiles \cup {ToKey(hashKey)} |->
                               IF k = ToKey(hashKey) THEN profileImpl ELSE profiles[k]],
              indices |-> Append(indices, ToKey(hashKey)),
              candidate |-> profileImpl,
              matched |-> NoProfile]
        ELSE [profiles |-> [profiles EXCEPT
                               ![scan.matchingProfile].displayName = profile.displayName,
                               ![scan.matchingProfile].tileURI = profile.tileURI,
                               ![scan.matchingProfile].isSuggestion = TRUE],
              indices |-> indices,
              candidate |-> profileImpl,
              matched |-> scan.matchingProfile]

\* the body of the callback handed to provider->GetProfiles: the resulting
\* m_profiles and m_profileIndices, and the candidate as the callback left it
SuggestionCallback(profiles, indices, profile) ==
    LET scan == ScanIdentifiers(profiles, profile.identifiers, 1,
                                << FALSE, NoProfile >>, ZeroWord(sizeLimbs))
        hashKey == ClipTo32(scan.hashKey)
        profileImpl == [profile EXCEPT !.isSuggestion = TRUE,
                                       !.internalIdentifier = ToKey(hashKey)]
    IN  IF ~scan.matchesExistingProfile
        THEN [profiles |-> [k \in DOMAIN profiles \cup {ToKey(hashKey)} |->
                               IF k = ToKey(hashKey) THEN profileImpl ELSE profiles[k]],
              indices |-> Append(indices, ToKey(hashKey)),
              candidate |-> profileImpl,
              matched |-> NoProfile]
        ELSE [profiles |-> [profiles EXCEPT
                               ![scan.matchingProfile].displayName = profile.displayName,
                               ![scan.matchingProfile].tileURI = profile.tileURI],
              indices |-> indices,
              candidate |-> profileImpl,
              matched |-> scan.matchingProfile]

\* int GetNumProfiles()
GetNumProfiles == Len(m_profileIndices)

\* GetProfile(index), index counted from 0 as in the code
GetProfile(index) == m_profiles[m_profileIndices[index + 1]]

(***************************************************************************)
(* The persisted document.  A JSON value is a record tagged by its type:   *)
(* [t |-> "string", s |-> ...], [t |-> "array", a |-> <<...>>],            *)
(* [t |-> "object", o |-> [member name |-> value]], [t |-> "number"], and  *)
(* [t |-> "invalid"] for a text rapidjson reports a parse error on.        *)
(***************************************************************************)
JString(str) == [t |-> "string", s |-> str]

JArray(elems) == [t |-> "array", a |-> elems]

JObject(members) == [t |-> "object", o |-> members]

JNumber == [t |-> "number"]

JInvalid == [t |-> "invalid"]

IsObject(v) == v.t = "object"

IsArray(v) == v.t = "array"

IsString(v) == v.t = "string"

HasMember(v, name) == name \in DOMAIN v.o

\* a text with an embedded NUL character (the JSON escape \u0000), and what a
\* const char* conversion keeps of it: the characters before the NUL
EmbeddedNul == "2\\0x"

\* std::string(const char*): the text up to its first NUL
CStr(str) == IF str = EmbeddedNul THEN "2" ELSE str

\* the inner std::for_each of ParseStoredProfiles: elements that are not an
\* array of two strings are passed over, the others are appended and hashed
RECURSIVE ParseIdentifiers(_, _, _, _)
ParseIdentifiers(members, i, identifiers, hashKey) ==
    IF i > Len(members) THEN [identifiers |-> identifiers, hashKey |-> hashKey]
    ELSE LET identifierMember == members[i]
             wellFormed == /\ IsArray(identifierMember)
                           /\ Len(identifierMember.a) = 2
                           /\ IsString(identifierMember.a[1])
                           /\ IsString(identifierMember.a[2])
             identifier == << CStr(identifierMember.a[1].s),
                              CStr(identifierMember.a[2].s) >>
         IN  IF wellFormed
             THEN ParseIdentifiers(members, i + 1, Append(identifiers, identifier),
                                   HashStep(hashKey, identifier))
             ELSE ParseIdentifiers(members, i + 1, identifiers, hashKey)

\* the checks at the head of the outer lambda: the entry yields a profile
EntryAccepted(value) ==
    /\ IsObject(value)
    /\ HasMember(value, "displayName")
    /\ IsString(value.o["displayName"])
    /\ HasMember(value, "tileUri")
    /\ IsString(value.o["tileUri"])
    /\ HasMember(value, "identifiers")
    /\ IsArray(value.o["identifiers"])

\* the profile the outer lambda builds from an accepted entry; the hash key
\* is not clipped here, it is converted when stored under a 32-bit key
EntryProfile(value) ==
    LET parsed == ParseIdentifiers(value.o["identifiers"].a, 1, << >>,
                                   ZeroWord(sizeLimbs))
    IN  ProfileImpl(value.o["displayName"].s, value.o["tileUri"].s,
                    parsed.identifiers, ToKey(parsed.hashKey), FALSE)

\* the outer std::for_each: m_profiles[hashKey] = profile; push_back(hashKey)
RECURSIVE ParseEntries(_, _, _, _)
ParseEntries(entries, i, profiles, indices) ==
    IF i > Len(entries) THEN [profiles |-> profiles, indices |-> indices]
    ELSE IF ~EntryAccepted(entries[i])
         THEN ParseEntries(entries, i + 1, profiles, indices)
         ELSE LET profile == EntryProfile(entries[i])
                  hashKey == profile.internalIdentifier
              IN  ParseEntries(entries, i + 1,
                               [k \in DOMAIN profiles \cup {hashKey} |->
                                   IF k = hashKey THEN profile ELSE profiles[k]],
                               Append(indices, hashKey))

\* void ParseStoredProfiles(const std::string& profileList)
ParseStoredProfiles(document, profiles, indices) ==
    IF /\ document.t # "invalid"
       /\ IsObject(document)
       /\ HasMember(document, "profiles")
       /\ IsArray(document.o["profiles"])
    THEN ParseEntries(document.o["profiles"].a, 1, profiles, indices)
    ELSE [profiles |-> profiles, indices |-> indices]

\* the file on disk: none, a blob CryptUnprotectData rejects, or a blob that
\* decrypts to a text
NoFile == [stored |-> "absent"]

BadBlob == [stored |-> "undecryptable"]

Blob(document) == [stored |-> "blob", text |-> document]

\* a profile created in place of the stored ones
DefaultProfile == [displayName |-> "Default", tileURI |-> "", identifiers |-> << >>,
                   internalIdentifier |-> << 0, 0 >>, isSuggestion |-> FALSE]

\* LoadStoredProfiles falling back to a default profile when nothing could be
\* loaded from the file
LoadStoredProfilesOrDefault(profiles, indices) ==
    LET loaded == IF file.stored = "blob"
                  THEN ParseStoredProfiles(file.text, profiles, indices)
                  ELSE [profiles |-> profiles, indices |-> indices]
    IN  IF loaded.indices = << >>
        THEN [profiles |-> [k \in {<< 0, 0 >>} |-> DefaultProfile],
              indices |-> << << 0, 0 >> >>]
        ELSE loaded

\* void LoadStoredProfiles()
LoadStoredProfiles(profiles, indices) ==
    IF file.stored = "blob"
    THEN ParseStoredProfiles(file.text, profiles, indices)
    ELSE [profiles |-> profiles, indices |-> indices]

\* the JSON object UpdateStoredProfiles builds for one profile
ProfileData(profile) ==
    JObject([name \in {"displayName", "tileUri", "identifiers"} |->
        CASE name = "displayName" -> JString(profile.displayName)
          [] name = "tileUri" -> JString(profile.tileURI)
          [] name = "identifiers" ->
                JArray([i \in 1..GetNumIdentifiers(profile) |->
                          JArray(<< JString(CStr(profile.identifiers[i][1])),
                                    JString(CStr(profile.identifiers[i][2])) >>)])])

\* the document UpdateStoredProfiles serializes: the profiles of m_profiles
\* in map order
StoredDocument(profiles) ==
    LET order == MapOrder(DOMAIN profiles)
    IN  JObject([name \in {"profiles"} |->
                   JArray([i \in 1..Len(order) |-> ProfileData(profiles[order[i]])])])

\* void SaveStoredProfiles(const std::string& savedList): the file after the
\* call; `written` is whether CryptProtectData, the folder lookup and the
\* open all succeeded
SaveStoredProfiles(savedList, written) ==
    IF written THEN Blob(savedList) ELSE file

\* void UpdateStoredProfiles()
UpdateStoredProfiles(written) ==
    SaveStoredProfiles(StoredDocument(m_profiles), written)

(***************************************************************************)
(* SignIn.  A run is the state shared by the closures of one SignIn call:  *)
(* the profile, numIdentifiers, *idx, *tokenBag and resultEvent, with the  *)
(* asynchronous call whose continuation is outstanding.                    *)
(***************************************************************************)
RunIds == 1..MaxConcurrent

\* what the environment can answer
IdentityResults ==
    { [succeeded |-> TRUE, tokenType |-> "bearer", token |-> "abc123"],
      [succeeded |-> TRUE, tokenType |-> "ticket", token |-> "xyz789"],
      [succeeded |-> FALSE, error |-> "denied"] }

ErrorCodes == {5, 1001}

RemoteResults ==
    {[succeeded |-> TRUE]} \cup {[succeeded |-> FALSE, error |-> c] : c \in ErrorCodes}

\* ProfileTaskResult(true) and ProfileTaskResult(false, message)
ProfileTaskResult(success, message) == [success |-> success, error |-> message]

\* va("... failed - error code %d.", code)
FormatError(prefix, code) == << prefix, code, "." >>

\* an entry of a run's trace: a call the run made (with its argument), or the
\* completion of an asynchronous call (with its result)
Event(kind, call, arg) == [kind |-> kind, call |-> call, arg |-> arg]

\* `id` is the number of the SignIn call; `client` is the IClient the run
\* created (named by the call that created it, 0: none yet) and `user` the
\* client whose user service the run authenticates on
NotStarted ==
    [started |-> FALSE, id |-> 0, identifiers |-> << >>, numIdentifiers |-> 0,
     idx |-> 0, tokenBag |-> << >>, client |-> 0, user |-> 0, pending |-> "none",
     results |-> << >>, log |-> << >>]

\* continueIdentifier->func with the bound of the identifier loop off by one:
\* the last identifier is never resolved
continueIdentifierEarly(run) ==
    IF run.idx + 1 < run.numIdentifiers
    THEN LET identifier == run.identifiers[run.idx + 1]
         IN  IF identifier[1] \in m_identityProviders
             THEN [run EXCEPT !.pending = "ProcessIdentity",
                              !.log = Append(@, Event("call", "ProcessIdentity", run.idx))]
             ELSE [run EXCEPT !.pending = "none"]
    ELSE [run EXCEPT !.client = run.id,
                     !.pending = "ConnectRemote",
                     !.log = Append(@, Event("call", "ConnectRemote", run.id))]

\* continueIdentifier->func
continueIdentifier(run) ==
    IF run.idx < run.numIdentifiers
    THEN LET identifier == run.identifiers[run.idx + 1]
         IN  IF identifier[1] \in m_identityProviders
             THEN [run EXCEPT !.pending = "ProcessIdentity",
                              !.log = Append(@, Event("call", "ProcessIdentity", run.idx))]
             ELSE [run EXCEPT !.pending = "none"]
    ELSE [run EXCEPT !.client = run.id,
                     !.pending = "ConnectRemote",
                     !.log = Append(@, Event("call", "ConnectRemote", run.id))]

\* resultEvent.set(result)
SetResult(run, result) ==
    [run EXCEPT !.pending = "none",
                !.results = Append(@, result),
                !.log = Append(@, Event("call", "resultEvent.set", result))]

\* identifierCB without the else: a failure is reported and the chain goes on
identifierCBGoesOn(run, result) ==
    IF result.succeeded
    THEN continueIdentifier(
             [run EXCEPT !.tokenBag = Append(@, << result.tokenType, result.token >>),
                         !.idx = @ + 1])
    ELSE continueIdentifier(
             [SetResult(run, ProfileTaskResult(FALSE, result.error)) EXCEPT !.idx = @ + 1])

\* identifierCB
identifierCB(run, result) ==
    IF result.succeeded
    THEN continueIdentifier(
             [run EXCEPT !.tokenBag = Append(@, << result.tokenType, result.token >>),
                         !.idx = @ + 1])
    ELSE SetResult(run, ProfileTaskResult(FALSE, result.error))

\* the connect continuation trying again after a failure
connectCBRetries(run, result) ==
    IF result.succeeded
    THEN [run EXCEPT !.user = run.client,
                     !.pending = "AuthenticateWithTokenBag",
                     !.log = Append(@, Event("call", "AuthenticateWithTokenBag", run.tokenBag))]
    ELSE [run EXCEPT !.pending = "ConnectRemote",
                     !.log = Append(@, Event("call", "ConnectRemote", run.client))]

\* the connect continuation taking the user service of the client held by
\* Instance<TerminalClient> instead of the client it captured
connectCBCurrentClient(run, result) ==
    IF result.succeeded
    THEN [run EXCEPT !.user = terminalClient,
                     !.pending = "AuthenticateWithTokenBag",
                     !.log = Append(@, Event("call", "AuthenticateWithTokenBag", run.tokenBag))]
    ELSE SetResult(run, ProfileTaskResult(FALSE,
             FormatError("Connecting to Terminal failed - error code ", result.error)))

\* the continuation of client->ConnectRemote
connectCB(run, result) ==
    IF result.succeeded
    THEN [run EXCEPT !.user = run.client,
                     !.pending = "AuthenticateWithTokenBag",
                     !.log = Append(@, Event("call", "AuthenticateWithTokenBag", run.tokenBag))]
    ELSE SetResult(run, ProfileTaskResult(FALSE,
             FormatError("Connecting to Terminal failed - error code ", result.error)))

\* the authenticate continuation saving before it looks at the result
authenticateCBSavesFirst(run, result, written) ==
    LET saved == [run EXCEPT !.log = Append(@, Event("call", "UpdateStoredProfiles",
                                                     StoredDocument(m_profiles)))]
    IN  IF result.succeeded
        THEN [run |-> SetResult(saved, ProfileTaskResult(TRUE, "")),
              file |-> UpdateStoredProfiles(written)]
        ELSE [run |-> SetResult(saved, ProfileTaskResult(FALSE,
                          FormatError("Authenticating to Terminal failed - error code ",
                                      result.error))),
              file |-> UpdateStoredProfiles(written)]

\* the authenticate continuation reporting success before it saves
authenticateCBReportsFirst(run, result, written) ==
    IF result.succeeded
    THEN [run |-> [SetResult(run, ProfileTaskResult(TRUE, "")) EXCEPT
                      !.log = Append(@, Event("call", "UpdateStoredProfiles",
                                              StoredDocument(m_profiles)))],
          file |-> UpdateStoredProfiles(written)]
    ELSE [run |-> SetResult(run, ProfileTaskResult(FALSE,
                      FormatError("Authenticating to Terminal failed - error code ",
                                  result.error))),
          file |-> file]

\* the continuation of user->AuthenticateWithTokenBag: the run and the file
\* afterwards
authenticateCB(run, result, written) ==
    IF result.succeeded
    THEN [run |-> SetResult(
                      [run EXCEPT !.log = Append(@, Event("call", "UpdateStoredProfiles",
                                                            StoredDocument(m_profiles)))],
                      ProfileTaskResult(TRUE, "")),
          file |-> UpdateStoredProfiles(written)]
    ELSE [run |-> SetResult(run, ProfileTaskResult(FALSE,
                      FormatError("Authenticating to Terminal failed - error code ",
                                  result.error))),
          file |-> file]

\* the completion of an asynchronous call, as the run's trace records it
Completed(run, call, result) ==
    [run EXCEPT !.log = Append(@, Event("completed", call, result))]

(***************************************************************************)
(* Actions.                                                                *)
(***************************************************************************)
store == << m_profiles, m_profileIndices >>

build == << sizeLimbs, stdHash >>

\* void AddIdentityProvider(provider), keyed by provider->GetIdentifierKey()
AddIdentityProvider(key) ==
    /\ ~initialized
    /\ key \notin m_identityProviders
    /\ m_identityProviders' = m_identityProviders \cup {key}
    /\ UNCHANGED << build, store, file, initialized, ingested, terminalClient, runs, probe >>

\* void Initialize(): LoadStoredProfiles(), then the suggestion providers
\* are asked for their profiles
Initialize ==
    /\ ~initialized
    /\ LET loaded == LoadStoredProfiles(m_profiles, m_profileIndices)
       IN  /\ m_profiles' = loaded.profiles
           /\ m_profileIndices' = loaded.indices
    /\ initialized' = TRUE
    /\ UNCHANGED << build, m_identityProviders, file, ingested, terminalClient, runs, probe >>

\* a suggestion provider hands one candidate to the GetProfiles callback
IngestSuggestion(identifiers) ==
    /\ initialized
    /\ Len(ingested) < MaxSuggestions
    /\ LET n == Len(ingested) + 1
           profile == ProfileImpl(SuggestedNames[n], SuggestedTiles[n], identifiers,
                                  << 0, 0 >>, FALSE)
           after == SuggestionCallback(m_profiles, m_profileIndices, profile)
       IN  /\ m_profiles' = after.profiles
           /\ m_profileIndices' = after.indices
           /\ ingested' = Append(ingested,
                  [offered |-> profile, candidate |-> after.candidate,
                   matched |-> after.matched,
                   profiles |-> m_profiles, indices |-> m_profileIndices])
    /\ UNCHANGED << build, m_identityProviders, file, initialized, terminalClient, runs, probe >>

\* SignIn(profile, parameters) on the profile GetProfile(index) returned
SignIn(r, index) ==
    /\ initialized
    /\ ~runs[r].started
    /\ index < GetNumProfiles
    /\ LET profileImpl == GetProfile(index)
           run == continueIdentifier(
                      [NotStarted EXCEPT !.started = TRUE,
                                         !.id = r,
                                         !.identifiers = profileImpl.identifiers,
                                         !.numIdentifiers = GetNumIdentifiers(profileImpl)])
       IN  /\ runs' = [runs EXCEPT ![r] = run]
           /\ terminalClient' = IF run.pending = "ConnectRemote" THEN r ELSE terminalClient
    /\ UNCHANGED << build, store, m_identityProviders, file, initialized, ingested, probe >>

\* a provider's ProcessIdentity task completes and identifierCB runs
ProcessIdentityCompletes(r, result) ==
    /\ runs[r].pending = "ProcessIdentity"
    /\ LET run == identifierCB(Completed(runs[r], "ProcessIdentity", result), result)
       IN  /\ runs' = [runs EXCEPT ![r] = run]
           /\ terminalClient' = IF run.pending = "ConnectRemote" THEN r ELSE terminalClient
    /\ UNCHANGED << build, store, m_identityProviders, file, initialized, ingested, probe >>

\* ConnectRemote completes and its continuation runs
ConnectRemoteCompletes(r, result) ==
    /\ runs[r].pending = "ConnectRemote"
    /\ runs' = [runs EXCEPT ![r] =
                   connectCB(Completed(runs[r], "ConnectRemote", result), result)]
    /\ UNCHANGED << build, store, m_identityProviders, file, initialized, ingested,
                    terminalClient, probe >>

\* AuthenticateWithTokenBag completes and its continuation runs
AuthenticateCompletes(r, result, written) ==
    /\ runs[r].pending = "AuthenticateWithTokenBag"
    /\ LET after == authenticateCB(
                        Completed(runs[r], "AuthenticateWithTokenBag", result),
                        result, written)
       IN  /\ runs' = [runs EXCEPT ![r] = after.run]
           /\ file' = after.file
    /\ UNCHANGED << build, store, m_identityProviders, initialized, ingested,
                    terminalClient, probe >>

\* the fingerprint a candidate with these identifiers gets from the callback
\* of Initialize, against the store as it is
SuggestionHashKey(identifiers) ==
    SuggestionCallback(m_profiles, m_profileIndices,
        ProfileImpl("", "", identifiers, << 0, 0 >>, FALSE)).candidate.internalIdentifier

\* the fingerprint ParseStoredProfiles gives an entry with these identifiers
StoredHashKey(identifiers) ==
    EntryProfile(ProfileData(
        ProfileImpl("", "", identifiers, << 0, 0 >>, FALSE))).internalIdentifier

\* both fingerprint loops run on one identifier list
ComputeFingerprint(identifiers) ==
    /\ initialized
    /\ ~probe.computed
    /\ probe' = [computed |-> TRUE, identifiers |-> identifiers,
                 suggested |-> SuggestionHashKey(identifiers),
                 stored |-> StoredHashKey(identifiers)]
    /\ UNCHANGED << build, store, m_identityProviders, file, initialized, ingested,
                    terminalClient, runs >>

(***************************************************************************)
(* Stored files the program may find at start-up.                          *)
(***************************************************************************)
StoredEntry(name, tile, identifiers) ==
    ProfileData(ProfileImpl(name, tile, identifiers, << 0, 0 >>, FALSE))

ProfilesDocument(entries) == JObject([name \in {"profiles"} |-> JArray(entries)])

\* two well-formed profiles
TwoProfiles ==
    ProfilesDocument(<< StoredEntry("Stored1", "s1.png", << <<"steam", "1">> >>),
                        StoredEntry("Stored2", "s2.png",
                                    << <<"ros", "1">>, <<"steam", "2">> >>) >>)

\* a profile without identifiers, and one whose identifier is repeated
Degenerate ==
    ProfilesDocument(<< StoredEntry("Stored1", "s1.png", << >>),
                        StoredEntry("Stored2", "s2.png",
                                    << <<"steam", "1">>, <<"steam", "1">> >>) >>)

\* malformed entries around a well-formed one
Damaged ==
    ProfilesDocument(<< JNumber,
                        JObject([name \in {"displayName", "tileUri", "identifiers"} |->
                                    IF name = "displayName" THEN JNumber
                                    ELSE IF name = "tileUri" THEN JString("x.png")
                                    ELSE JArray(<< >>)]),
                        StoredEntry("Stored1", "s1.png", << <<"steam", "2">> >>),
                        JObject([name \in {"displayName", "tileUri"} |-> JString("x")]) >>)

\* a well-formed profile whose identifiers array holds, between two pairs, an
\* element that is no array, a pair with a number and an array of one string
Mangled ==
    ProfilesDocument(<<
        JObject([name \in {"displayName", "tileUri", "identifiers"} |->
                    IF name = "displayName" THEN JString("Stored1")
                    ELSE IF name = "tileUri" THEN JString("s1.png")
                    ELSE JArray(<< JArray(<< JString("steam"), JString("1") >>),
                                   JNumber,
                                   JArray(<< JString("ros"), JNumber >>),
                                   JArray(<< JString("ros") >>),
                                   JArray(<< JString("steam"), JString("2") >>) >>)]),
        StoredEntry("Stored2", "s2.png", << <<"ros", "1">> >>) >>)

\* the two well-formed profiles, the one with the greater fingerprint first
Reversed ==
    ProfilesDocument(<< StoredEntry("Stored2", "s2.png",
                                    << <<"ros", "1">>, <<"steam", "2">> >>),
                        StoredEntry("Stored1", "s1.png", << <<"steam", "1">> >>) >>)

\* a profile whose identifier value holds an embedded NUL
Embedded ==
    ProfilesDocument(<<
        JObject([name \in {"displayName", "tileUri", "identifiers"} |->
                    IF name = "displayName" THEN JString("Stored1")
                    ELSE IF name = "tileUri" THEN JString("s1.png")
                    ELSE JArray(<< JArray(<< JString("steam"),
                                             JString(EmbeddedNul) >>) >>)]) >>)

\* documents without a profiles array
NoProfilesMember == JObject([name \in {"version"} |-> JNumber])

ProfilesNotArray == JObject([name \in {"profiles"} |-> JString("none")])

StoredFiles ==
    { NoFile, BadBlob, Blob(JInvalid), Blob(JArray(<< >>)),
      Blob(NoProfilesMember), Blob(ProfilesNotArray),
      Blob(TwoProfiles), Blob(Degenerate), Blob(Damaged),
      Blob(Mangled), Blob(Reversed), Blob(Embedded) }

\* identifier lists of the suggestion candidates
SuggestedIdentifiers == {<<"steam", "1">>, <<"ros", "1">>}

CandidateIdentifiers == SeqsUpTo(SuggestedIdentifiers, MaxIds)

(***************************************************************************)
(* Specifications.                                                         *)
(***************************************************************************)
Constructed ==
    /\ m_profiles = << >>
    /\ m_profileIndices = << >>
    /\ m_identityProviders = {}
    /\ initialized = FALSE
    /\ ingested = << >>
    /\ terminalClient = 0
    /\ runs = [r \in RunIds |-> NotStarted]
    /\ probe = [computed |-> FALSE, identifiers |-> << >>, suggested |-> << 0, 0 >>, stored |-> << 0, 0 >>]

\* suggestions that arrive while sign-ins are under way
LateIdentifiers == { << <<"steam", "2">> >> }

Init ==
    /\ sizeLimbs \in {2, 4}
    /\ stdHash = PlainHash
    /\ file \in {NoFile, Blob(TwoProfiles), Blob(Degenerate)}
    /\ Constructed

\* start-up, suggestions and sign-in
Next ==
    \/ \E key \in IdKeys : AddIdentityProvider(key)
    \/ Initialize
    \/ \E identifiers \in LateIdentifiers : IngestSuggestion(identifiers)
    \/ \E r \in 1..MaxRuns : \E index \in 0..(GetNumProfiles - 1) : SignIn(r, index)
    \/ \E r \in RunIds : \E result \in IdentityResults : ProcessIdentityCompletes(r, result)
    \/ \E r \in RunIds : \E result \in RemoteResults : ConnectRemoteCompletes(r, result)
    \/ \E r \in RunIds : \E result \in RemoteResults : \E written \in BOOLEAN :
           AuthenticateCompletes(r, result, written)

Spec == Init /\ [][Next]_vars

\* sign-ins under way at the same time, on the two stored profiles, with
\* every identity provider registered or not
InitPair ==
    /\ sizeLimbs = 2
    /\ stdHash = PlainHash
    /\ file = Blob(TwoProfiles)
    /\ Constructed

NextPair ==
    \/ \E key \in IdKeys : AddIdentityProvider(key)
    \/ Initialize
    \/ \E r \in RunIds : \E index \in 0..(GetNumProfiles - 1) : SignIn(r, index)
    \/ \E r \in RunIds : \E result \in IdentityResults : ProcessIdentityCompletes(r, result)
    \/ \E r \in RunIds : \E result \in RemoteResults : ConnectRemoteCompletes(r, result)
    \/ \E r \in RunIds : \E result \in RemoteResults : \E written \in BOOLEAN :
           AuthenticateCompletes(r, result, written)

SpecPair == InitPair /\ [][NextPair]_vars

InitStore ==
    /\ sizeLimbs \in {2, 4}
    /\ stdHash \in HashTables
    /\ file \in StoredFiles
    /\ Constructed

\* start-up and suggestions only
NextStore ==
    \/ Initialize
    \/ \E identifiers \in CandidateIdentifiers : IngestSuggestion(identifiers)

SpecStore == InitStore /\ [][NextStore]_vars

\* the fingerprint loops on their own, against the store as loaded
NextHash ==
    \/ Initialize
    \/ \E identifiers \in SeqsUpTo(Identifiers, MaxHashLen) : ComputeFingerprint(identifiers)

SpecHash == InitStore /\ [][NextHash]_vars

(***************************************************************************)
(* Properties of SignIn, checked under Spec.                               *)
(***************************************************************************)
Started == {r \in RunIds : runs[r].started}

IsCall(e, call) == e.kind = "call" /\ e.call = call

IsCompleted(e, call) == e.kind = "completed" /\ e.call = call

\* positions of the trace holding a call of `call`
Calls(log, call) == {p \in 1..Len(log) : IsCall(log[p], call)}

\* the identifier at index i (from 0) of the run has a registered provider
Registered(run, i) == run.identifiers[i + 1][1] \in m_identityProviders

\* C1: every SignIn run reports exactly one outcome: resultEvent is never
\* set twice, and a run with no asynchronous call outstanding (all of its
\* calls have completed) has set it.
C1_ReportsExactlyOnce ==
    \A r \in Started :
        /\ Len(runs[r].results) <= 1
        /\ runs[r].pending = "none" => Len(runs[r].results) = 1

\* C2: an identifier without registered provider is passed over: the run
\* never rests on it, and adds no token for it; so a run that has reported
\* nothing and awaits no provider has reached the connect step.
C2_SkipsUnregistered ==
    \A r \in Started :
        LET run == runs[r]
        IN  /\ Len(run.tokenBag) =
                   Cardinality({i \in 0..(run.idx - 1) : Registered(run, i)})
            /\ (run.results = << >> /\ run.idx < run.numIdentifiers)
                   => Registered(run, run.idx)
            /\ (run.results = << >> /\ run.pending # "ProcessIdentity")
                   => Calls(run.log, "ConnectRemote") # {}

\* the provider of identifier k answered with a failure at position p
ProviderFailedAt(run, p, k) ==
    /\ p > 1
    /\ IsCompleted(run.log[p], "ProcessIdentity")
    /\ ~run.log[p].arg.succeeded
    /\ IsCall(run.log[p - 1], "ProcessIdentity")
    /\ run.log[p - 1].arg = k

\* C3: when the provider of identifier k fails, the run reports failure with
\* that provider's error message and does nothing else: no later provider
\* is invoked, connect and authenticate are never called, and the k tokens
\* acquired before are never submitted.
C3_ProviderFailureAborts ==
    \A r \in Started :
        LET run == runs[r]
        IN  \A p \in 1..Len(run.log) : \A k \in 0..(run.numIdentifiers - 1) :
                ProviderFailedAt(run, p, k) =>
                    /\ run.results = << ProfileTaskResult(FALSE, run.log[p].arg.error) >>
                    /\ Len(run.log) = p + 1
                    /\ IsCall(run.log[p + 1], "resultEvent.set")
                    /\ run.pending = "none"
                    /\ \A q \in 1..Len(run.log) :
                           /\ IsCall(run.log[q], "ProcessIdentity") => run.log[q].arg <= k
                           /\ ~IsCall(run.log[q], "ConnectRemote")
                           /\ ~IsCall(run.log[q], "AuthenticateWithTokenBag")
                           /\ ~IsCall(run.log[q], "UpdateStoredProfiles")
                    /\ Len(run.tokenBag) = k

\* a provider failed on the second identifier, after a token was acquired
C3_Witness ==
    \E r \in Started : \E p \in 1..Len(runs[r].log) :
        /\ ProviderFailedAt(runs[r], p, 1)
        /\ Len(runs[r].tokenBag) = 1
        /\ Len(runs[r].results) = 1

\* identifier j was resolved successfully before position p of the trace
ResolvedBefore(run, p, j) ==
    \E q \in 1..(p - 2) :
        /\ IsCall(run.log[q], "ProcessIdentity")
        /\ run.log[q].arg = j
        /\ IsCompleted(run.log[q + 1], "ProcessIdentity")
        /\ run.log[q + 1].arg.succeeded

\* nothing is in flight when the call at position p is made: it is the first
\* entry of the trace or is made from the continuation of the previous call
NothingInFlight(run, p) == p = 1 \/ run.log[p - 1].kind = "completed"

\* C4: providers are invoked in identifier order, one at a time, each after
\* every earlier identifier was resolved successfully or skipped; connect is
\* called only once all N identifiers are resolved or skipped; authenticate
\* only right after a successful connect.
C4_StrictOrder ==
    \A r \in Started :
        LET run == runs[r]
            done(p, j) == ResolvedBefore(run, p, j) \/ ~Registered(run, j)
        IN  \A p \in 1..Len(run.log) :
                /\ IsCall(run.log[p], "ProcessIdentity") =>
                       /\ run.log[p].arg \in 0..(run.numIdentifiers - 1)
                       /\ \A j \in 0..(run.log[p].arg - 1) : done(p, j)
                       /\ \A q \in 1..(p - 1) : IsCall(run.log[q], "ProcessIdentity")
                              => run.log[q].arg < run.log[p].arg
                       /\ NothingInFlight(run, p)
                /\ IsCall(run.log[p], "ConnectRemote") =>
                       /\ \A j \in 0..(run.numIdentifiers - 1) : done(p, j)
                       /\ NothingInFlight(run, p)
                /\ IsCall(run.log[p], "AuthenticateWithTokenBag") =>
                       /\ p > 1
                       /\ IsCompleted(run.log[p - 1], "ConnectRemote")
                       /\ run.log[p - 1].arg.succeeded

\* a run over two identifiers got as far as authenticate
C4_Witness ==
    \E r \in Started :
        /\ runs[r].numIdentifiers = 2
        /\ Calls(runs[r].log, "ProcessIdentity") # {}
        /\ Calls(runs[r].log, "AuthenticateWithTokenBag") # {}

\* the entries a step added to the trace of run r
NewEvents(r) == SubSeq(runs'[r].log, Len(runs[r].log) + 1, Len(runs'[r].log))

\* the step makes run r report a failure
ReportsFailure(r) ==
    /\ Len(runs'[r].results) > Len(runs[r].results)
    /\ ~runs'[r].results[Len(runs'[r].results)].success

\* the run has reported a failure
HasFailed(run) == run.results # << >> /\ ~run.results[1].success

\* C5: the step in which a run reports failure writes neither the file nor
\* the in-memory store, the run has not called UpdateStoredProfiles before
\* and does nothing afterwards; after a failed connect or authenticate the
\* message holds the backend's error code.
C5_FailureLeavesStoreAlone ==
    [][\A r \in RunIds :
          /\ ReportsFailure(r) =>
                /\ UNCHANGED << m_profiles, m_profileIndices, file >>
                /\ Calls(runs'[r].log, "UpdateStoredProfiles") = {}
                /\ LET log == runs'[r].log
                       answer == log[Len(log) - 1]
                   IN  /\ answer.kind = "completed"
                       /\ ~answer.arg.succeeded
                       /\ answer.call \in {"ConnectRemote", "AuthenticateWithTokenBag"}
                              => runs'[r].results[1].error[2] = answer.arg.error
          /\ HasFailed(runs[r]) => runs'[r] = runs[r]
      ]_vars

\* runs have failed at connect and at authenticate, with different codes
C5_Witness ==
    \E r \in Started :
        /\ HasFailed(runs[r])
        /\ Calls(runs[r].log, "AuthenticateWithTokenBag") # {}
        /\ runs[r].results[1].error[2] = 1001
        /\ m_profiles # << >>

\* the document holds the profiles of m_profiles, with their display name,
\* tile and identifiers, and nothing else
HoldsOnlyTheStore(document) ==
    /\ IsObject(document)
    /\ DOMAIN document.o = {"profiles"}
    /\ IsArray(document.o["profiles"])
    /\ LET entries == document.o["profiles"].a
           encodes(entry, profile) ==
               /\ entry.o["displayName"] = JString(profile.displayName)
               /\ entry.o["tileUri"] = JString(profile.tileURI)
               /\ IsArray(entry.o["identifiers"])
               /\ Len(entry.o["identifiers"].a) = GetNumIdentifiers(profile)
               /\ \A j \in 1..GetNumIdentifiers(profile) :
                      entry.o["identifiers"].a[j] =
                          JArray(<< JString(profile.identifiers[j][1]),
                                    JString(profile.identifiers[j][2]) >>)
       IN  /\ Len(entries) = Cardinality(DOMAIN m_profiles)
           /\ \A i \in 1..Len(entries) :
                  /\ IsObject(entries[i])
                  /\ DOMAIN entries[i].o = {"displayName", "tileUri", "identifiers"}
                  /\ \E k \in DOMAIN m_profiles : encodes(entries[i], m_profiles[k])
           /\ \A k \in DOMAIN m_profiles :
                  \E i \in 1..Len(entries) : encodes(entries[i], m_profiles[k])

\* C6: when authenticate succeeds the run saves the store once, then reports
\* success without a message; the saved document holds the profiles only
\* (no token), and a run reports success in no other way.
C6_SuccessSavesThenReports ==
    [][\A r \in RunIds :
          LET new == NewEvents(r)
              authenticated == /\ new # << >>
                               /\ IsCompleted(new[1], "AuthenticateWithTokenBag")
                               /\ new[1].arg.succeeded
              succeeds == /\ Len(runs'[r].results) > Len(runs[r].results)
                          /\ runs'[r].results[Len(runs'[r].results)].success
          IN  /\ succeeds => authenticated
              /\ authenticated =>
                    /\ Len(new) = 3
                    /\ IsCall(new[2], "UpdateStoredProfiles")
                    /\ IsCall(new[3], "resultEvent.set")
                    /\ new[3].arg.success
                    /\ new[3].arg.error = ""
                    /\ Len(runs'[r].results) = 1
                    /\ runs'[r].results[1].success
                    /\ runs'[r].results[1].error = ""
                    /\ Cardinality(Calls(runs'[r].log, "UpdateStoredProfiles")) = 1
                    /\ HoldsOnlyTheStore(new[2].arg)
                    /\ file' \in {file, Blob(new[2].arg)}
                    /\ UNCHANGED << m_profiles, m_profileIndices >>
      ]_vars

\* a run with tokens in its bag succeeded and the file holds the saved store
C6_Witness ==
    \E r \in Started :
        /\ runs[r].results # << >>
        /\ runs[r].results[1].success
        /\ Len(runs[r].tokenBag) = 2
        /\ Cardinality(DOMAIN m_profiles) = 2
        /\ file = Blob(StoredDocument(m_profiles))

(***************************************************************************)
(* Properties of the fingerprint, checked under SpecHash.                  *)
(***************************************************************************)
\* the injective maps of 1..n onto itself
Rearrangements(n) ==
    {f \in [1..n -> 1..n] : \A i, j \in 1..n : f[i] = f[j] => i = j}

Permuted(ids, f) == [i \in 1..Len(ids) |-> ids[f[i]]]

Occurrences(ids, id) == Cardinality({i \in 1..Len(ids) : ids[i] = id})

Elements(ids) == {ids[i] : i \in 1..Len(ids)}

\* some profile of the store holds this identifier
InStore(id) == \E k \in DOMAIN m_profiles : HasIdentifier(m_profiles[k], id)

\* C7: the fingerprint of an identifier list equals that of each of its
\* permutations, as computed by the suggestion callback (whatever the match
\* scan finds in the store) and as computed when loading a stored entry.
C7_PermutationInvariant ==
    probe.computed =>
        \A f \in Rearrangements(Len(probe.identifiers)) :
            /\ SuggestionHashKey(Permuted(probe.identifiers, f)) = probe.suggested
            /\ StoredHashKey(Permuted(probe.identifiers, f)) = probe.stored

\* three distinct identifiers of which only the second is in the store
C7_Witness ==
    /\ probe.computed
    /\ Len(probe.identifiers) = 3
    /\ Cardinality(Elements(probe.identifiers)) = 3
    /\ ~InStore(probe.identifiers[1])
    /\ InStore(probe.identifiers[2])
    /\ probe.suggested # << 0, 0 >>

\* C8 as claimed: two identifier lists with the same set of distinct
\* identifiers have the same fingerprint, whatever the repetitions.
C8_SameSetSameFingerprint ==
    probe.computed =>
        \A other \in SeqsUpTo(Identifiers, MaxHashLen) :
            Elements(other) = Elements(probe.identifiers) =>
                /\ SuggestionHashKey(other) = probe.suggested
                /\ StoredHashKey(other) = probe.stored

\* C8 amended: two identifier lists in which every identifier occurs the
\* same number of times modulo 2 have the same fingerprint (an identifier
\* repeated an even number of times drops out of the fingerprint).
C8_SameParitySameFingerprint ==
    probe.computed =>
        \A other \in SeqsUpTo(Identifiers, MaxHashLen) :
            (\A id \in Identifiers :
                 Occurrences(other, id) % 2 = Occurrences(probe.identifiers, id) % 2) =>
                /\ SuggestionHashKey(other) = probe.suggested
                /\ StoredHashKey(other) = probe.stored

\* a list with a repeated identifier and another one, with a fingerprint
\* that is not zero
C8_Witness ==
    /\ probe.computed
    /\ Len(probe.identifiers) = 3
    /\ probe.identifiers[1] = probe.identifiers[3]
    /\ probe.identifiers[1] # probe.identifiers[2]
    /\ probe.stored # << 0, 0 >>

(***************************************************************************)
(* Properties of suggestion ingestion, checked under SpecStore.            *)
(***************************************************************************)
\* no profile of `profiles` holds an identifier of `ids`
SharesNone(profiles, ids) ==
    \A k \in DOMAIN profiles : Elements(profiles[k].identifiers) \cap Elements(ids) = {}

\* the store after the n-th suggestion was ingested
StoreAfter(n) ==
    IF n < Len(ingested)
    THEN [profiles |-> ingested[n + 1].profiles, indices |-> ingested[n + 1].indices]
    ELSE [profiles |-> m_profiles, indices |-> m_profileIndices]

\* the profile enumerated at position n (from 1) of a store
Enumerated(st, n) == st.profiles[st.indices[n]]

\* candidates n and n + 1 met a store sharing no identifier with either
FreshPair(n) ==
    /\ SharesNone(ingested[n].profiles, ingested[n].offered.identifiers)
    /\ SharesNone(ingested[n].profiles, ingested[n + 1].offered.identifiers)

\* C9: candidates A then B that share an identifier, ingested into a store
\* that shares none with them, add one profile to the enumeration: it has
\* A's identifier list and fingerprint and B's display name and tile, and B
\* was merged into it instead of being inserted.
C9_OverlappingCandidatesMerge ==
    \A n \in 1..(Len(ingested) - 1) :
        LET A == ingested[n]
            B == ingested[n + 1]
            after == StoreAfter(n + 1)
            count == Len(A.indices)
        IN  (/\ FreshPair(n)
             /\ Elements(A.offered.identifiers) \cap Elements(B.offered.identifiers) # {})
            =>  /\ Len(after.indices) = count + 1
                /\ SubSeq(after.indices, 1, count) = A.indices
                /\ after.indices[count + 1] = A.candidate.internalIdentifier
                /\ Enumerated(after, count + 1).identifiers = A.offered.identifiers
                /\ Enumerated(after, count + 1).internalIdentifier
                       = A.candidate.internalIdentifier
                /\ Enumerated(after, count + 1).displayName = B.offered.displayName
                /\ Enumerated(after, count + 1).tileURI = B.offered.tileURI
                /\ B.matched = A.candidate.internalIdentifier

\* A and B overlap in one identifier only, in a store that held profiles
C9_Witness ==
    /\ Len(ingested) = 2
    /\ FreshPair(1)
    /\ ingested[1].indices # << >>
    /\ Elements(ingested[1].offered.identifiers) = {<<"steam", "1">>}
    /\ Elements(ingested[2].offered.identifiers) = {<<"steam", "1">>, <<"ros", "1">>}
    /\ Len(m_profileIndices) = Len(ingested[1].indices) + 1

\* C10: candidates A then B with disjoint identifier sets (empty ones
\* included), ingested into a store that shares no identifier with them,
\* add two profiles: the count grows by two, and the two new positions of
\* the enumeration return A and B with their own metadata and identifiers.
C10_DisjointCandidatesBothStored ==
    \A n \in 1..(Len(ingested) - 1) :
        LET A == ingested[n]
            B == ingested[n + 1]
            after == StoreAfter(n + 1)
            count == Len(A.indices)
            returns(profile, offered) ==
                /\ profile.displayName = offered.displayName
                /\ profile.tileURI = offered.tileURI
                /\ profile.identifiers = offered.identifiers
        IN  (/\ FreshPair(n)
             /\ Elements(A.offered.identifiers) \cap Elements(B.offered.identifiers) = {})
            =>  /\ Len(after.indices) = count + 2
                /\ returns(Enumerated(after, count + 1), A.offered)
                /\ returns(Enumerated(after, count + 2), B.offered)

(***************************************************************************)
(* Properties of loading and saving, checked under SpecStore.              *)
(***************************************************************************)
\* the stored profiles were loaded and no suggestion has been ingested yet
JustLoaded == initialized /\ ingested = << >>

\* the file decrypts to a document with a profiles array
HasProfilesArray ==
    /\ file.stored = "blob"
    /\ file.text.t = "object"
    /\ "profiles" \in DOMAIN file.text.o
    /\ file.text.o["profiles"].t = "array"

\* an element of an identifiers array that is a pair of two strings
IsPair(element) ==
    /\ element.t = "array"
    /\ Len(element.a) = 2
    /\ element.a[1].t = "string"
    /\ element.a[2].t = "string"

\* an entry of the profiles array that is well-formed in the sense of C11
WellFormedEntry(entry) ==
    /\ entry.t = "object"
    /\ {"displayName", "tileUri", "identifiers"} \subseteq DOMAIN entry.o
    /\ entry.o["displayName"].t = "string"
    /\ entry.o["tileUri"].t = "string"
    /\ entry.o["identifiers"].t = "array"
    /\ \A j \in 1..Len(entry.o["identifiers"].a) : IsPair(entry.o["identifiers"].a[j])

\* the well-formed entries among the entries, in document order
RECURSIVE WellFormedEntries(_)
WellFormedEntries(entries) ==
    IF entries = << >> THEN << >>
    ELSE (IF WellFormedEntry(Head(entries)) THEN << Head(entries) >> ELSE << >>)
             \o WellFormedEntries(Tail(entries))

\* the identifier pairs an entry holds, as written in the document
WrittenIdentifiers(entry) ==
    [j \in 1..Len(entry.o["identifiers"].a) |->
        << entry.o["identifiers"].a[j].a[1].s, entry.o["identifiers"].a[j].a[2].s >>]

\* C11: after loading a document, the enumeration holds one profile for each
\* well-formed entry, in document order, with the entry's display name, tile
\* and identifiers; a malformed entry (an entry with an identifiers element
\* that is not a pair of two strings included) contributes no profile.
C11_MalformedEntriesSkipped ==
    (JustLoaded /\ HasProfilesArray) =>
        LET good == WellFormedEntries(file.text.o["profiles"].a)
        IN  /\ GetNumProfiles = Len(good)
            /\ \A n \in 1..Len(good) :
                   /\ GetProfile(n - 1).displayName = good[n].o["displayName"].s
                   /\ GetProfile(n - 1).tileURI = good[n].o["tileUri"].s
                   /\ GetProfile(n - 1).identifiers = WrittenIdentifiers(good[n])

\* decode(encode(store)): the store ParseStoredProfiles builds, starting from
\* an empty one, out of the document UpdateStoredProfiles serializes
Reloaded == ParseStoredProfiles(StoredDocument(m_profiles), << >>, << >>)

\* C12: saving the store and parsing the saved document into an empty store
\* gives the same fingerprints, under each fingerprint the same identifier
\* list, display name and tile, and the same number of enumerable profiles.
C12_RoundTrip ==
    initialized =>
        /\ DOMAIN Reloaded.profiles = DOMAIN m_profiles
        /\ \A k \in DOMAIN m_profiles :
               /\ Reloaded.profiles[k].identifiers = m_profiles[k].identifiers
               /\ Reloaded.profiles[k].displayName = m_profiles[k].displayName
               /\ Reloaded.profiles[k].tileURI = m_profiles[k].tileURI
               /\ Reloaded.profiles[k].internalIdentifier = k
        /\ Len(Reloaded.indices) = GetNumProfiles

(***************************************************************************)
(* The fingerprint as a number, checked under SpecHash.                    *)
(***************************************************************************)
\* a 32-bit value as two 16-bit limbs, low limb first
IsUint32(key) ==
    /\ Len(key) = 2
    /\ key[1] \in 0..65535
    /\ key[2] \in 0..65535

\* bit i of a limb
Bit(x, i) == (x \div (2 ^ i)) % 2

\* exclusive or of two limbs, bit by bit
XorLimb(a, b) ==
    LET bits == [i \in 0..15 |-> IF Bit(a, i) = Bit(b, i) THEN 0 ELSE 2 ^ i]
        sum[i \in 0..15] == bits[i] + (IF i = 0 THEN 0 ELSE sum[i - 1])
    IN  sum[15]

\* (h + h + h) modulo 2^32 of the low 32 bits of a hash
TripleMod32(h) ==
    LET low == h[1] + h[1] + h[1]
        high == h[2] + h[2] + h[2] + (low \div 65536)
    IN  << low % 65536, high % 65536 >>

\* XOR over the identifiers of 3 times the content hash, masked to 32 bits
RECURSIVE MaskedXor(_)
MaskedXor(ids) ==
    IF ids = << >> THEN << 0, 0 >>
    ELSE LET rest == MaskedXor(Tail(ids))
             term == TripleMod32(stdHash[Head(ids)])
         IN  << XorLimb(rest[1], term[1]), XorLimb(rest[2], term[2]) >>

C14_EnumerationMatchesMapping ==
    /\ \A i, j \in 1..Len(m_profileIndices) :
           m_profileIndices[i] = m_profileIndices[j] => i = j
    /\ Elements(m_profileIndices) = DOMAIN m_profiles
    /\ GetNumProfiles = Cardinality(DOMAIN m_profiles)
    /\ \A i, j \in 0..(GetNumProfiles - 1) :
           i # j => GetProfile(i) # GetProfile(j)

\* the keys of the profiles of `profiles` that hold an identifier of `ids`
Sharing(profiles, ids) ==
    {k \in DOMAIN profiles : Elements(profiles[k].identifiers) \cap Elements(ids) # {}}

\* the first key, in enumeration order, of a profile holding an identifier
\* of `ids`
FirstEnumerated(profiles, indices, ids) ==
    LET positions == {p \in 1..Len(indices) : indices[p] \in Sharing(profiles, ids)}
    IN  indices[CHOOSE p \in positions : \A q \in positions : p <= q]

\* C15: a candidate with identifiers in more than one stored profile is
\* merged into the first of those profiles in enumeration order: that one
\* gets the candidate's display name and tile.
C15_FirstEnumeratedWins ==
    \A n \in 1..Len(ingested) :
        LET before == ingested[n]
            ids == before.offered.identifiers
        IN  Cardinality(Sharing(before.profiles, ids)) > 1 =>
                LET winner == FirstEnumerated(before.profiles, before.indices, ids)
                IN  /\ before.matched = winner
                    /\ StoreAfter(n).profiles[winner].displayName
                           = before.offered.displayName
                    /\ StoreAfter(n).profiles[winner].tileURI = before.offered.tileURI

\* C16: when a candidate shares an identifier with a stored profile, the
\* ingestion changes the display name and tile of one such profile to the
\* candidate's and nothing else: that profile keeps its identifiers,
\* fingerprint and suggestion flag, the other profiles, the key set and the
\* enumeration sequence are as before.
C16_MergeChangesMetadataOnly ==
    \A n \in 1..Len(ingested) :
        LET before == ingested[n]
            after == StoreAfter(n)
        IN  Sharing(before.profiles, before.offered.identifiers) # {} =>
                /\ after.indices = before.indices
                /\ DOMAIN after.profiles = DOMAIN before.profiles
                /\ \E k \in Sharing(before.profiles, before.offered.identifiers) :
                       /\ after.profiles[k] =
                              [before.profiles[k] EXCEPT
                                   !.displayName = before.offered.displayName,
                                   !.tileURI = before.offered.tileURI]
                       /\ \A o \in DOMAIN before.profiles \ {k} :
                              after.profiles[o] = before.profiles[o]

\* a candidate was merged into one of two profiles loaded from the file
C16_Witness ==
    \E n \in 1..Len(ingested) :
        /\ Cardinality(DOMAIN ingested[n].profiles) = 2
        /\ Cardinality(Sharing(ingested[n].profiles, ingested[n].offered.identifiers)) = 1
        /\ \A k \in DOMAIN ingested[n].profiles : ~ingested[n].profiles[k].isSuggestion
        /\ \E k \in DOMAIN ingested[n].profiles :
               /\ StoreAfter(n).profiles[k].displayName = ingested[n].offered.displayName
               /\ ingested[n].profiles[k].displayName # ingested[n].offered.displayName

\* C17: an ingestion never shortens the enumeration and leaves every
\* position it had returning the profile it returned before (the same
\* identifiers and suggestion flag); a profile it inserts is the one
\* returned at the new last position.
C17_StableDiscoveryOrder ==
    \A n \in 1..Len(ingested) :
        LET before == ingested[n]
            after == StoreAfter(n)
            count == Len(before.indices)
        IN  /\ Len(after.indices) >= count
            /\ SubSeq(after.indices, 1, count) = before.indices
            /\ \A p \in 1..count :
                   /\ Enumerated(after, p).identifiers
                          = Enumerated(before, p).identifiers
                   /\ Enumerated(after, p).isSuggestion
                          = Enumerated(before, p).isSuggestion
            /\ Len(after.indices) > count =>
                   /\ Len(after.indices) = count + 1
                   /\ Enumerated(after, count + 1).identifiers
                          = before.offered.identifiers
                   /\ Enumerated(after, count + 1).displayName
                          = before.offered.displayName

(***************************************************************************)
(* Further properties of SignIn, checked under Spec.                       *)
(***************************************************************************)
\* C18: within one run the provider of each identifier is invoked at most
\* once, and connect, authenticate and the save are each called at most
\* once, whatever the steps answered.
C18_NoStepRetried ==
    \A r \in Started :
        LET log == runs[r].log
        IN  /\ \A p, q \in Calls(log, "ProcessIdentity") :
                   log[p].arg = log[q].arg => p = q
            /\ Cardinality(Calls(log, "ConnectRemote")) <= 1
            /\ Cardinality(Calls(log, "AuthenticateWithTokenBag")) <= 1
            /\ Cardinality(Calls(log, "UpdateStoredProfiles")) <= 1
            /\ Cardinality(Calls(log, "resultEvent.set")) <= 1

\* a run over two identifiers went through every step and failed at the
\* last one
C18_Witness ==
    \E r \in Started :
        /\ Cardinality(Calls(runs[r].log, "ProcessIdentity")) = 2
        /\ Cardinality(Calls(runs[r].log, "ConnectRemote")) = 1
        /\ Cardinality(Calls(runs[r].log, "AuthenticateWithTokenBag")) = 1
        /\ HasFailed(runs[r])

(***************************************************************************)
(* Start-up without usable stored profiles, checked under SpecStore.       *)
(***************************************************************************)
\* the file is absent, cannot be decrypted, or holds no profiles array
NothingToLoad == ~HasProfilesArray

RECURSIVE OwnTokens(_)
OwnTokens(log) ==
    IF log = << >> THEN << >>
    ELSE LET e == log[Len(log)]
             earlier == OwnTokens(SubSeq(log, 1, Len(log) - 1))
         IN  IF IsCompleted(e, "ProcessIdentity") /\ e.arg.succeeded
             THEN Append(earlier, << e.arg.tokenType, e.arg.token >>)
             ELSE earlier

\* the results the run whose trace this is has reported, in order
RECURSIVE OwnResults(_)
OwnResults(log) ==
    IF log = << >> THEN << >>
    ELSE LET e == log[Len(log)]
             earlier == OwnResults(SubSeq(log, 1, Len(log) - 1))
         IN  IF IsCall(e, "resultEvent.set") THEN Append(earlier, e.arg) ELSE earlier

\* C20: whatever the interleaving of the runs, the token bag of a run, and
\* the bag it submits to authenticate, hold exactly the tokens its own
\* provider resolutions returned; its index counts its own successful
\* resolutions; it connects the client it created and authenticates on that
\* client, whichever client Instance<TerminalClient> holds by then; and its
\* outcome is the one its own continuation reported after its own step.
C20_RunsAreIsolated ==
    \A r \in Started :
        LET run == runs[r]
            log == run.log
        IN  /\ run.tokenBag = OwnTokens(log)
            /\ run.idx = Len(OwnTokens(log))
            /\ \A p \in Calls(log, "AuthenticateWithTokenBag") :
                   /\ log[p].arg = OwnTokens(SubSeq(log, 1, p))
                   /\ run.user = r
            /\ \A p \in Calls(log, "ConnectRemote") :
                   /\ log[p].arg = r
                   /\ run.client = r
            /\ run.results = OwnResults(log)
            /\ \A p \in Calls(log, "resultEvent.set") :
                   /\ p > 1
                   /\ ~log[p].arg.success =>
                          /\ log[p - 1].kind = "completed"
                          /\ ~log[p - 1].arg.succeeded
                   /\ log[p].arg.success =>
                          /\ p > 2
                          /\ IsCompleted(log[p - 2], "AuthenticateWithTokenBag")
                          /\ log[p - 2].arg.succeeded

\* two runs were under way together: one succeeded with two tokens although
\* the other had set its client as the current one, and the other failed
C20_Witness ==
    \E r1, r2 \in Started :
        /\ r1 # r2
        /\ runs[r1].results # << >>
        /\ runs[r1].results[1].success
        /\ Len(runs[r1].tokenBag) = 2
        /\ terminalClient = r2
        /\ HasFailed(runs[r2])
        /\ Len(runs[r2].tokenBag) = 1
        /\ runs[r2].tokenBag[1] # runs[r1].tokenBag[1]

====
